---- MODULE Spec2Model ----
(***************************************************************************)
(* Model of "Mastering Assets/master_av.py": main, run_batch and           *)
(* process_file, and of audiovault_master.py, with the file system and the *)
(* external ffmpeg calls as state.  A path is a triple                     *)
(* <<directory, name, n>>; a file-system entry maps a path to              *)
(* <<kind, producer>>.                                                     *)
(***************************************************************************)
EXTENDS Integers, Sequences, FiniteSets, TLC

\* Largest number of entries os.listdir(in_dir) returns.
MaxFiles == 2
\* Number of consecutive invocations of main over the same file system.
MaxRuns == 2

----------------------------------------------------------------------------
\* Paths

NoPath == <<"", "", 0>>

DEFAULT_HEAD == <<"assets", "avo_head.mp3", 0>>
DEFAULT_TAIL == <<"assets", "avo_tail.mp3", 0>>
SILENCE_PATH == <<"assets", "silence_1s.mp3", 0>>

\* os.path.dirname(SILENCE_PATH)
AssetsDir == <<"assets", "", 0>>

\* The paths a user passes as --custom-head / --custom-tail.
UserHead == <<"user", "head.wav", 0>>
UserTail == <<"user", "tail.wav", 0>>

\* args.input or "./in", args.output or "./out"
InDir == <<"in", "", 0>>
OutDir == <<"out", "", 0>>

\* The input and output of single-file mode.
ClipIn == <<"cwd", "clip.wav", 0>>
ClipOut == <<"cwd", "clip_out.mp3", 0>>

\* os.path.join(dir, name)
Join(dir, name) == <<dir[1], name, 0>>

\* tempfile.mktemp(suffix=...): a name no earlier call returned; the file is
\* not created.
mktemp(n, suffix) == <<"tmp", suffix, n>>

\* The names an input directory may hold.
DirNames == {"a.wav", "a.MP3", "b.wav", "n.txt"}

\* os.path.splitext(filename)
splitext(filename) ==
    CASE filename = "a.wav" -> <<"a", ".wav">>
      [] filename = "a.MP3" -> <<"a", ".MP3">>
      [] filename = "b.wav" -> <<"b", ".wav">>
      [] filename = "n.txt" -> <<"n", ".txt">>
      [] filename = "clip.wav" -> <<"clip", ".wav">>
      [] OTHER -> <<filename, "">>

\* str.lower() on an extension
lower(ext) ==
    CASE ext = ".MP3" -> ".mp3"
      [] ext = ".WAV" -> ".wav"
      [] OTHER -> ext

----------------------------------------------------------------------------
\* File system

Dir == <<"dir", "">>
Orig == <<"orig", "">>

Put(f, p, c) == [q \in (DOMAIN f) \cup {p} |-> IF q = p THEN c ELSE f[q]]
Del(f, p) == [q \in (DOMAIN f) \ {p} |-> f[q]]

\* os.path.exists / isfile / isdir
exists(f, p) == p \in DOMAIN f
isfile(f, p) == p \in DOMAIN f /\ f[p] # Dir
isdir(f, p) == p \in DOMAIN f /\ f[p] = Dir

rename_as_copy(f, src, dst) == Put(f, dst, f[src])

\* os.rename(src, dst): dst is replaced when it exists
rename(f, src, dst) == IF src = dst THEN f ELSE Put(Del(f, src), dst, f[src])

\* os.remove(path)
remove(f, p) == Del(f, p)

\* A performed side effect, or a line a dry run prints.
Act(op, src, dst) == [op |-> op, src |-> src, dst |-> dst]

\* All sequences without repetition over S of length at most n.
RECURSIVE Listings(_, _)
Listings(S, n) ==
    IF n = 0 THEN {<<>>}
    ELSE {<<>>} \cup
         UNION {{<<x>> \o t : t \in Listings(S \ {x}, n - 1)} : x \in S}

----------------------------------------------------------------------------
\* Argument validation

\* Truth value of an optional path argument: None when the option is not
\* given, otherwise the non-empty path the user passed.
Given(p) == p # NoPath

validate_args_noheadrule(a) ==
    IF a.skip_bumper /\ (Given(a.custom_head) \/ Given(a.custom_tail)
                         \/ a.no_head \/ a.no_tail)
    THEN "skip_bumper_with_bumper_option"
    ELSE IF a.no_tail /\ Given(a.custom_tail)
    THEN "no_tail_with_custom_tail"
    ELSE "ok"

\* validate_args: the sys.exit message, or "ok" when it returns.
validate_args(a) ==
    IF a.skip_bumper /\ (Given(a.custom_head) \/ Given(a.custom_tail)
                         \/ a.no_head \/ a.no_tail)
    THEN "skip_bumper_with_bumper_option"
    ELSE IF a.no_head /\ Given(a.custom_head)
    THEN "no_head_with_custom_head"
    ELSE IF a.no_tail /\ Given(a.custom_tail)
    THEN "no_tail_with_custom_tail"
    ELSE "ok"

----------------------------------------------------------------------------
\* State

VARIABLES
    flags,      \* the parsed command line (args), or process_file's arguments
    dirOrder,   \* the order in which os.listdir returns in_dir's entries
    fs,         \* the file system: path -> <<kind, producer>>
    fs0,        \* the file system when the current run started
    log,        \* side effects performed in the current run, in order
    printed,    \* "Dry run:" lines printed in the current run, in order
    pc,         \* position in the program
    run,        \* number of the current invocation
    files,      \* the listing run_batch iterates over
    idx,        \* index of the current entry of files
    cur,        \* process_file's input_file and output_file
    tmp,        \* process_file's temporaries
    segments,   \* the lines written to the concat manifest, in order
    ntmp,       \* number of names mktemp has returned
    results,    \* per candidate of the current run: name and outcome
    status      \* exit message of the current run

vars == <<flags, dirOrder, fs, fs0, log, printed, pc, run, files, idx,
          cur, tmp, segments, ntmp, results, status>>

NoTmp == [mastered |-> NoPath, silence |-> NoPath, concat |-> NoPath,
          head |-> NoPath, tail |-> NoPath]
NoCur == [input |-> NoPath, output |-> NoPath]

Flags ==
    [mode : {"single", "batch", "direct"},
     add_bumper : BOOLEAN, skip_bumper : BOOLEAN,
     force : BOOLEAN, dry_run : BOOLEAN,
     custom_head : {NoPath, UserHead}, custom_tail : {NoPath, UserTail},
     no_head : BOOLEAN, no_tail : BOOLEAN]

\* The default assets that exist, with their directory: the two default
\* bumpers are installed together, the silence asset is generated on demand.
AssetStates ==
    {[p \in A \cup {AssetsDir} |-> IF p = AssetsDir THEN Dir ELSE Orig] :
        A \in {{DEFAULT_HEAD, DEFAULT_TAIL, SILENCE_PATH},
               {DEFAULT_HEAD, DEFAULT_TAIL}, {SILENCE_PATH}}}
    \cup {<<>>}

\* The user's own bumper files exist.
UserFiles == [p \in {UserHead, UserTail} |-> Orig]

\* Single-file mode: the input may be missing, the output may exist.
SingleStates ==
    {[p \in S |-> Orig] : S \in SUBSET {ClipIn, ClipOut}}

\* Batch mode: the listing of in_dir, and the outputs already in out_dir.
BatchStates(order) ==
    LET ins == {Join(InDir, order[i]) : i \in 1..Len(order)}
        inFs == [p \in ins \cup {InDir} |-> IF p = InDir THEN Dir ELSE Orig]
    IN  {inFs @@ [p \in O \cup {OutDir} |-> IF p = OutDir THEN Dir ELSE Orig] :
            O \in SUBSET {Join(OutDir, "a.mp3")}}
        \cup {inFs}
        \cup (IF order = <<>> THEN {<<>>} ELSE {})

Init ==
    /\ flags \in Flags
    /\ flags.mode = "direct" => ~flags.force
    /\ dirOrder \in (IF flags.mode = "batch"
                     THEN Listings(DirNames, MaxFiles) ELSE {<<>>})
    /\ \E assets \in AssetStates :
       \E io \in (IF flags.mode = "batch" THEN BatchStates(dirOrder)
                  ELSE IF flags.mode = "single" THEN SingleStates
                  ELSE {[p \in S |-> Orig] : S \in {{ClipIn}, {ClipIn, ClipOut}}}) :
          fs = assets @@ UserFiles @@ io
    /\ fs0 = fs
    /\ log = <<>>
    /\ printed = <<>>
    /\ run = 1
    /\ files = <<>>
    /\ idx = 0
    /\ tmp = NoTmp
    /\ segments = <<>>
    /\ ntmp = 0
    /\ results = <<>>
    /\ status = ""
    /\ IF flags.mode = "direct"
       THEN pc = "process_file" /\ cur = [input |-> ClipIn, output |-> ClipOut]
       ELSE pc = "main" /\ cur = NoCur

----------------------------------------------------------------------------
\* Helpers of the actions

\* os.listdir(in_dir): the entries still present, in directory order
listdir(f, order) == SelectSeq(order, LAMBDA n : exists(f, Join(InDir, n)))

\* name + ".mp3"
OutputName(name) == name \o ".mp3"

\* Whether run_batch takes a directory entry as a candidate (lines 134-138)
IsCandidate(f, filename) ==
    /\ isfile(f, Join(InDir, filename))
    /\ lower(splitext(filename)[2]) \in {".wav", ".mp3"}

skip_existing_never(f, output_path, force) == FALSE

skip_existing_inverted(f, output_path, force) == exists(f, output_path) /\ force

\* run_batch's test for skipping an entry (line 140)
skip_existing(f, output_path, force) == exists(f, output_path) /\ ~force

manifest_tail_once(silence_fixed, tail_fixed) == <<silence_fixed, tail_fixed>>

\* The manifest lines written for the tail (lines 105-107)
manifest_tail(silence_fixed, tail_fixed) ==
    <<silence_fixed, tail_fixed, silence_fixed>>

manifest_head_after_body(head_fixed, body) == <<body, head_fixed>>

\* The manifest lines written for the head and the body (lines 97-98)
manifest_head(head_fixed, body) == <<head_fixed, body>>

bumper_path_default(custom, default) == default

\* custom_head or DEFAULT_HEAD, custom_tail or DEFAULT_TAIL (lines 92, 100)
bumper_path(custom, default) == IF Given(custom) THEN custom ELSE default

omit_tail_never(a) == FALSE

\* "if not no_tail" (line 99), negated: the tail block is skipped
omit_tail(a) == a.no_tail

silence_missing_always(f) == TRUE

\* "if not os.path.exists(SILENCE_PATH)" (line 80)
silence_missing(f) == ~exists(f, SILENCE_PATH)

\* sys.exit(msg): SystemExit is caught nowhere, the interpreter exits.
Exit(msg) == pc' = "exit" /\ status' = msg

\* subprocess.run(cmd, check=True), or the line printed instead under
\* dry_run.  baseFs and baseLog are the file system and the log just before
\* the call, made is the file system after a successful call.  A failed call
\* raises CalledProcessError, which is caught nowhere, and leaves no output.
Call(act, baseFs, baseLog, made, next) ==
    IF flags.dry_run
    THEN /\ printed' = Append(printed, act)
         /\ fs' = baseFs
         /\ log' = baseLog
         /\ pc' = next
         /\ UNCHANGED status
    ELSE \E ok \in BOOLEAN :
         /\ log' = Append(baseLog, act)
         /\ UNCHANGED printed
         /\ IF ok
            THEN fs' = made /\ pc' = next /\ UNCHANGED status
            ELSE fs' = baseFs /\ pc' = "crash" /\ status' = "CalledProcessError"

----------------------------------------------------------------------------
\* main (lines 148-186)

Main ==
    /\ pc = "main"
    /\ LET err == validate_args(flags) IN
       IF err # "ok"
       THEN /\ Exit(err)
            /\ UNCHANGED <<fs, log, printed, files, idx, cur>>
       ELSE IF flags.mode = "batch"
       THEN IF ~isdir(fs, InDir)
            THEN /\ Exit("missing_input_folder")
                 /\ UNCHANGED <<fs, log, printed, files, idx, cur>>
            ELSE /\ IF isdir(fs, OutDir)
                    THEN UNCHANGED <<fs, log, printed>>
                    ELSE IF flags.dry_run
                    THEN /\ printed' = Append(printed, Act("makedirs", NoPath, OutDir))
                         /\ UNCHANGED <<fs, log>>
                    ELSE /\ fs' = Put(fs, OutDir, Dir)
                         /\ log' = Append(log, Act("makedirs", NoPath, OutDir))
                         /\ UNCHANGED printed
                 /\ files' = listdir(fs, dirOrder)
                 /\ idx' = 1
                 /\ pc' = "run_batch"
                 /\ UNCHANGED <<cur, status>>
       ELSE IF ~isfile(fs, ClipIn)
            THEN /\ Exit("invalid_input_file")
                 /\ UNCHANGED <<fs, log, printed, files, idx, cur>>
            ELSE /\ cur' = [input |-> ClipIn, output |-> ClipOut]
                 /\ pc' = "process_file"
                 /\ UNCHANGED <<fs, log, printed, files, idx, status>>
    /\ UNCHANGED <<flags, dirOrder, fs0, run, tmp, segments, ntmp, results>>

----------------------------------------------------------------------------
\* run_batch (lines 130-146)

\* One iteration of the loop over os.listdir(in_dir).
RunBatchStep ==
    /\ pc = "run_batch"
    /\ idx <= Len(files)
    /\ LET filename == files[idx]
           input_path == Join(InDir, filename)
           name == splitext(filename)[1]
           output_path == Join(OutDir, OutputName(name))
       IN  IF ~IsCandidate(fs, filename)
           THEN /\ idx' = idx + 1
                /\ UNCHANGED <<pc, cur, results>>
           ELSE IF skip_existing(fs, output_path, flags.force)
           THEN /\ idx' = idx + 1
                /\ results' = Append(results, [name |-> filename, outcome |-> "skipped"])
                /\ UNCHANGED <<pc, cur>>
           ELSE /\ cur' = [input |-> input_path, output |-> output_path]
                /\ results' = Append(results, [name |-> filename, outcome |-> "invoked"])
                /\ pc' = "process_file"
                /\ UNCHANGED idx
    /\ UNCHANGED <<flags, dirOrder, fs, fs0, log, printed, run, files,
                   tmp, segments, ntmp, status>>

\* The loop is exhausted: run_batch and main return.
RunBatchReturn ==
    /\ pc = "run_batch"
    /\ idx > Len(files)
    /\ pc' = "done"
    /\ UNCHANGED <<flags, dirOrder, fs, fs0, log, printed, run, files, idx,
                   cur, tmp, segments, ntmp, results, status>>

----------------------------------------------------------------------------
\* process_file (lines 49-128)

\* Lines 51-70: validation, then the mastering call unless add_bumper.
Master ==
    /\ pc = "process_file"
    /\ LET err == validate_args(flags)
           temp_mastered == mktemp(ntmp + 1, ".mp3")
           next == IF flags.skip_bumper THEN "rename" ELSE "silence"
       IN  IF err # "ok"
           THEN /\ Exit(err)
                /\ UNCHANGED <<fs, log, printed, tmp, ntmp>>
           ELSE /\ ntmp' = ntmp + 1
                /\ IF ~flags.add_bumper
                   THEN /\ tmp' = [NoTmp EXCEPT !.mastered = temp_mastered]
                        /\ Call(Act("master", cur.input, temp_mastered), fs, log,
                                Put(fs, temp_mastered, <<"mastered", cur.input[2]>>),
                                next)
                   ELSE /\ tmp' = [NoTmp EXCEPT !.mastered = cur.input]
                        /\ pc' = next
                        /\ UNCHANGED <<fs, log, printed, status>>
    /\ segments' = <<>>
    /\ UNCHANGED <<flags, dirOrder, fs0, run, files, idx, cur, results>>

\* Lines 72-77: skip_bumper, the body alone is the output.
RenameOutput ==
    /\ pc = "rename"
    /\ IF ~flags.dry_run
       THEN /\ fs' = rename(fs, tmp.mastered, cur.output)
            /\ log' = Append(log, Act("rename", tmp.mastered, cur.output))
            /\ UNCHANGED printed
       ELSE /\ printed' = Append(printed, Act("rename", tmp.mastered, cur.output))
            /\ UNCHANGED <<fs, log>>
    /\ segments' = <<tmp.mastered>>
    /\ pc' = "return"
    /\ UNCHANGED <<flags, dirOrder, fs0, run, files, idx, cur, tmp, ntmp,
                   results, status>>

\* Lines 80-83: generate the silence asset when it is missing.
EnsureSilence ==
    /\ pc = "silence"
    /\ IF silence_missing(fs)
       THEN LET mk == ~exists(fs, AssetsDir)
                fs1 == IF mk THEN Put(fs, AssetsDir, Dir) ELSE fs
                log1 == IF mk THEN Append(log, Act("makedirs", NoPath, AssetsDir))
                        ELSE log
            IN  Call(Act("generate_silence", NoPath, SILENCE_PATH), fs1, log1,
                     Put(fs1, SILENCE_PATH, <<"silence", "">>), "canon_silence")
       ELSE /\ pc' = "canon_silence"
            /\ UNCHANGED <<fs, log, printed, status>>
    /\ UNCHANGED <<flags, dirOrder, fs0, run, files, idx, cur, tmp,
                   segments, ntmp, results>>

\* Lines 85-86: the canonical copy of the silence asset.
CanonSilence ==
    /\ pc = "canon_silence"
    /\ LET silence_fixed == mktemp(ntmp + 1, ".mp3") IN
       /\ ntmp' = ntmp + 1
       /\ tmp' = [tmp EXCEPT !.silence = silence_fixed]
       /\ Call(Act("ensure_stereo_cbr", SILENCE_PATH, silence_fixed), fs, log,
               Put(fs, silence_fixed, <<"canon", "silence">>), "head")
    /\ UNCHANGED <<flags, dirOrder, fs0, run, files, idx, cur, segments,
                   results>>

\* Lines 88-98: the manifest is opened for writing, then the head and the
\* body are written to it.
WriteHead ==
    /\ pc = "head"
    /\ LET concat_list == mktemp(ntmp + 1, ".txt")
           fs1 == Put(fs, concat_list, <<"manifest", cur.input[2]>>)
           log1 == Append(log, Act("open_w", NoPath, concat_list))
           head_path == bumper_path(flags.custom_head, DEFAULT_HEAD)
           head_fixed == mktemp(ntmp + 2, ".mp3")
       IN  IF flags.no_head
           THEN /\ fs' = fs1
                /\ log' = log1
                /\ tmp' = [tmp EXCEPT !.concat = concat_list]
                /\ ntmp' = ntmp + 1
                /\ segments' = <<tmp.mastered>>
                /\ pc' = "tail"
                /\ UNCHANGED <<printed, status>>
           ELSE IF ~exists(fs1, head_path)
           THEN /\ fs' = fs1
                /\ log' = log1
                /\ tmp' = [tmp EXCEPT !.concat = concat_list]
                /\ ntmp' = ntmp + 1
                /\ Exit("missing_head_bumper")
                /\ UNCHANGED <<printed, segments>>
           ELSE /\ tmp' = [tmp EXCEPT !.concat = concat_list, !.head = head_fixed]
                /\ ntmp' = ntmp + 2
                /\ Call(Act("ensure_stereo_cbr", head_path, head_fixed), fs1, log1,
                        Put(fs1, head_fixed, <<"canon", "head">>), "tail")
                /\ segments' = IF pc' = "crash" THEN segments
                               ELSE manifest_head(head_fixed, tmp.mastered)
    /\ UNCHANGED <<flags, dirOrder, fs0, run, files, idx, cur, results>>

\* Lines 99-107: the tail, between two copies of the silence.
WriteTail ==
    /\ pc = "tail"
    /\ LET tail_path == bumper_path(flags.custom_tail, DEFAULT_TAIL)
           tail_fixed == mktemp(ntmp + 1, ".mp3")
       IN  IF omit_tail(flags)
           THEN /\ pc' = "concat"
                /\ UNCHANGED <<fs, log, printed, status, tmp, ntmp, segments>>
           ELSE IF ~exists(fs, tail_path)
           THEN /\ Exit("missing_tail_bumper")
                /\ UNCHANGED <<fs, log, printed, tmp, ntmp, segments>>
           ELSE /\ tmp' = [tmp EXCEPT !.tail = tail_fixed]
                /\ ntmp' = ntmp + 1
                /\ Call(Act("ensure_stereo_cbr", tail_path, tail_fixed), fs, log,
                        Put(fs, tail_fixed, <<"canon", "tail">>), "concat")
                /\ segments' = IF pc' = "crash" THEN segments
                               ELSE segments \o manifest_tail(tmp.silence, tail_fixed)
    /\ UNCHANGED <<flags, dirOrder, fs0, run, files, idx, cur, results>>

\* Lines 109-116: the concatenation call.
Concat ==
    /\ pc = "concat"
    /\ Call(Act("concat", tmp.concat, cur.output), fs, log,
            Put(fs, cur.output, <<"concat", cur.input[2]>>), "cleanup")
    /\ UNCHANGED <<flags, dirOrder, fs0, run, files, idx, cur, tmp,
                   segments, ntmp, results>>

\* Lines 118-126: removal of the manifest, the silence copy and the mastered
\* intermediate.
Cleanup ==
    /\ pc = "cleanup"
    /\ LET rm(f, p) == IF exists(f, p) /\ ~flags.dry_run THEN remove(f, p) ELSE f
           lg(l, f, p) == IF exists(f, p) /\ ~flags.dry_run
                          THEN Append(l, Act("remove", p, NoPath)) ELSE l
           fs1 == rm(fs, tmp.concat)
           log1 == lg(log, fs, tmp.concat)
           fs2 == rm(fs1, tmp.silence)
           log2 == lg(log1, fs1, tmp.silence)
       IN  IF ~flags.add_bumper /\ tmp.mastered # cur.input
              /\ exists(fs2, tmp.mastered)
           THEN IF flags.dry_run
                THEN /\ printed' = Append(printed, Act("remove", tmp.mastered, NoPath))
                     /\ fs' = fs2
                     /\ log' = log2
                ELSE /\ fs' = remove(fs2, tmp.mastered)
                     /\ log' = Append(log2, Act("remove", tmp.mastered, NoPath))
                     /\ UNCHANGED printed
           ELSE /\ fs' = fs2
                /\ log' = log2
                /\ UNCHANGED printed
    /\ pc' = "return"
    /\ UNCHANGED <<flags, dirOrder, fs0, run, files, idx, cur, tmp,
                   segments, ntmp, results, status>>

\* process_file returns (lines 77 and 128) to run_batch's loop or to main.
Return ==
    /\ pc = "return"
    /\ IF flags.mode = "batch"
       THEN /\ results' = [results EXCEPT ![Len(results)].outcome = "produced"]
            /\ idx' = idx + 1
            /\ pc' = "run_batch"
       ELSE /\ pc' = "done"
            /\ UNCHANGED <<results, idx>>
    /\ UNCHANGED <<flags, dirOrder, fs, fs0, log, printed, run, files,
                   cur, tmp, segments, ntmp, status>>

----------------------------------------------------------------------------
\* After main has returned, the program is started again with the same
\* command line, over the file system the previous invocation left.

Terminated == pc \in {"done", "exit", "crash"}

RunAgain ==
    /\ pc = "done"
    /\ flags.mode = "batch"
    /\ run < MaxRuns
    /\ run' = run + 1
    /\ pc' = "main"
    /\ fs0' = fs
    /\ log' = <<>>
    /\ printed' = <<>>
    /\ files' = <<>>
    /\ idx' = 0
    /\ cur' = NoCur
    /\ tmp' = NoTmp
    /\ segments' = <<>>
    /\ results' = <<>>
    /\ status' = ""
    /\ UNCHANGED <<flags, dirOrder, fs, ntmp>>

Next ==
    \/ Main
    \/ RunBatchStep
    \/ RunBatchReturn
    \/ Master
    \/ RenameOutput
    \/ EnsureSilence
    \/ CanonSilence
    \/ WriteHead
    \/ WriteTail
    \/ Concat
    \/ Cleanup
    \/ Return
    \/ RunAgain

Spec == Init /\ [][Next]_vars

----------------------------------------------------------------------------
\* A dry run followed by the real run: after a dry run through main has
\* returned, the same command line without --dry-run is run over the file
\* system the dry run started from.  printed keeps the dry run's lines.

RunForReal ==
    /\ pc = "done"
    /\ flags.mode \in {"single", "batch"}
    /\ flags.dry_run
    /\ run = 1
    /\ flags' = [flags EXCEPT !.dry_run = FALSE]
    /\ run' = run + 1
    /\ pc' = "main"
    /\ fs' = fs0
    /\ log' = <<>>
    /\ files' = <<>>
    /\ idx' = 0
    /\ cur' = NoCur
    /\ tmp' = NoTmp
    /\ segments' = <<>>
    /\ results' = <<>>
    /\ status' = ""
    /\ UNCHANGED <<dirOrder, fs0, printed, ntmp>>

NextDryReal == Next \/ RunForReal

SpecDryReal == Init /\ [][NextDryReal]_vars

----------------------------------------------------------------------------
\* audiovault_master.py: main, get_files_from_directory and process_file,
\* over the same state variables.  Here flags holds args.input and
\* args.output, dirOrder the order in which os.walk yields the file names of
\* the input directory, tmp is temp_audio_path, results holds one entry per
\* returned process_file call and printed the messages of main and
\* process_file.  aggressive_compression only changes the command line of
\* the first ffmpeg call, whose outcome is nondeterministic either way.

\* args.input as a directory or a file, args.output likewise
MediaDir == <<"media", "", 0>>
MasteredDir == <<"mastered", "", 0>>
MovieIn == <<"cwd", "movie.wav", 0>>
MovieOut == <<"cwd", "movie_out.mp3", 0>>

\* The file names the input directory may hold.
MediaNames == {"a.wav", "a.mp3", "b.MP3", "c.aac"}

SUPPORTED_FORMATS == <<".wav", ".mp3", ".aac", ".eac3">>

\* filename.endswith(ext), case-sensitive
endswith(filename, ext) ==
    CASE filename \in {"a.wav", "movie.wav"} -> ext = ".wav"
      [] filename = "a.mp3" -> ext = ".mp3"
      [] filename = "b.MP3" -> ext = ".MP3"
      [] filename = "c.aac" -> ext = ".aac"
      [] OTHER -> FALSE

\* basename.replace(".wav", ".mp3")
replace_wav_mp3(basename) ==
    CASE basename = "a.wav" -> "a.mp3"
      [] basename = "movie.wav" -> "movie.mp3"
      [] OTHER -> basename

\* get_files_from_directory(directory)
get_files_from_directory(f, directory, order) ==
    LET supported(n) ==
            /\ isfile(f, Join(directory, n))
            /\ \E i \in 1..Len(SUPPORTED_FORMATS) : endswith(n, SUPPORTED_FORMATS[i])
        names == SelectSeq(order, supported)
    IN  [i \in 1..Len(names) |-> Join(directory, names[i])]

caught_never(exc) == FALSE

\* "except subprocess.CalledProcessError" (line 58)
caught(exc) == exc = "CalledProcessError"

leave_temp(f, p) == f

\* "if os.path.exists(temp_audio_path): os.remove(temp_audio_path)"
\* (lines 61-62)
remove_if_exists(f, p) == IF exists(f, p) THEN remove(f, p) ELSE f

COMPLETE == Act("print", NoPath, <<"", "Batch processing complete!", 0>>)
INVALID == Act("print", NoPath, <<"", "Invalid input", 0>>)

\* The input directory with the names of the listing, or nothing at the
\* input path; the input file, or nothing; the output directory may exist.
AvInit ==
    /\ flags \in {[input |-> MediaDir, output |-> MasteredDir],
                  [input |-> MovieIn, output |-> MovieOut]}
    /\ dirOrder \in (IF flags.input = MediaDir
                     THEN Listings(MediaNames, MaxFiles) ELSE {<<>>})
    /\ fs \in (IF flags.input = MediaDir
               THEN LET ins == {Join(MediaDir, dirOrder[i]) : i \in 1..Len(dirOrder)}
                        inFs == [p \in ins \cup {MediaDir} |->
                                    IF p = MediaDir THEN Dir ELSE Orig]
                    IN  {inFs, inFs @@ [p \in {MasteredDir} |-> Dir]}
                        \cup (IF dirOrder = <<>> THEN {<<>>} ELSE {})
               ELSE {[p \in S |-> Orig] : S \in SUBSET {MovieIn, MovieOut}})
    /\ fs0 = fs
    /\ log = <<>>
    /\ printed = <<>>
    /\ pc = "main"
    /\ run = 1
    /\ files = <<>>
    /\ idx = 0
    /\ cur = NoCur
    /\ tmp = NoPath
    /\ segments = <<>>
    /\ ntmp = 0
    /\ results = <<>>
    /\ status = ""

\* main (lines 74-91) up to the loop or the single call: the directory branch
\* lists the files and makes the output directory, the file branch calls
\* process_file, anything else prints "Invalid input" and returns.
AvMain ==
    /\ pc = "main"
    /\ IF isdir(fs, flags.input)
       THEN /\ files' = get_files_from_directory(fs, flags.input, dirOrder)
            /\ fs' = Put(fs, flags.output, Dir)
            /\ log' = Append(log, Act("makedirs", NoPath, flags.output))
            /\ pc' = "for"
            /\ UNCHANGED <<cur, printed>>
       ELSE IF isfile(fs, flags.input)
       THEN /\ cur' = [input |-> flags.input, output |-> flags.output]
            /\ log' = Append(log, Act("process_file", flags.input, flags.output))
            /\ pc' = "process_file"
            /\ UNCHANGED <<files, fs, printed>>
       ELSE /\ printed' = Append(printed, INVALID)
            /\ pc' = "done"
            /\ UNCHANGED <<files, fs, log, cur>>
    /\ UNCHANGED <<flags, dirOrder, fs0, run, idx, tmp, segments, ntmp,
                   results, status>>

\* "for file in files" (lines 84-86): the next file is handed to
\* process_file, or the loop ends.
AvFor ==
    /\ pc = "for"
    /\ IF idx < Len(files)
       THEN LET file == files[idx + 1]
                output_file == Join(flags.output, replace_wav_mp3(file[2]))
            IN  /\ idx' = idx + 1
                /\ cur' = [input |-> file, output |-> output_file]
                /\ log' = Append(log, Act("process_file", file, output_file))
                /\ pc' = "process_file"
       ELSE /\ pc' = "complete"
            /\ UNCHANGED <<idx, cur, log>>
    /\ UNCHANGED <<flags, dirOrder, fs, fs0, printed, run, files, tmp,
                   segments, ntmp, results, status>>

\* NamedTemporaryFile(delete=False, suffix=".mp3") (lines 19-20): the file is
\* created and kept.
AvTemp ==
    /\ pc = "process_file"
    /\ ntmp' = ntmp + 1
    /\ tmp' = mktemp(ntmp + 1, ".mp3")
    /\ fs' = Put(fs, mktemp(ntmp + 1, ".mp3"), <<"empty", "">>)
    /\ pc' = "master"
    /\ UNCHANGED <<flags, dirOrder, fs0, log, printed, run, files, idx, cur,
                   segments, results, status>>

\* Where control goes when subprocess.run(..., check=True) raises.
Raised == IF caught("CalledProcessError") THEN "except" ELSE "crash"

\* subprocess.run(ffmpeg_cmd, check=True) (line 39)
AvMaster ==
    /\ pc = "master"
    /\ log' = Append(log, Act("master", cur.input, tmp))
    /\ \E ok \in BOOLEAN :
          IF ok
          THEN fs' = Put(fs, tmp, <<"mastered", cur.input[2]>>) /\ pc' = "mux"
          ELSE fs' = fs /\ pc' = Raised
    /\ UNCHANGED <<flags, dirOrder, fs0, printed, run, files, idx, cur, tmp,
                   segments, ntmp, results, status>>

\* subprocess.run(ffmpeg_mux_cmd, check=True) (line 52)
AvMux ==
    /\ pc = "mux"
    /\ log' = Append(log, Act("mux", tmp, cur.output))
    /\ \E ok \in BOOLEAN :
          IF ok
          THEN fs' = Put(fs, cur.output, <<"muxed", cur.input[2]>>) /\ pc' = "remove"
          ELSE fs' = fs /\ pc' = Raised
    /\ UNCHANGED <<flags, dirOrder, fs0, printed, run, files, idx, cur, tmp,
                   segments, ntmp, results, status>>

\* os.remove(temp_audio_path) and the success message (lines 55-56)
AvRemove ==
    /\ pc = "remove"
    /\ fs' = remove(fs, tmp)
    /\ log' = Append(log, Act("remove", tmp, NoPath))
    /\ results' = Append(results, [name |-> cur.input[2], outcome |-> "muxed"])
    /\ pc' = "return"
    /\ UNCHANGED <<flags, dirOrder, fs0, printed, run, files, idx, cur, tmp,
                   segments, ntmp, status>>

\* The except clause (lines 58-62)
AvExcept ==
    /\ pc = "except"
    /\ printed' = Append(printed, Act("print", cur.input, <<"", "Error processing", 0>>))
    /\ fs' = remove_if_exists(fs, tmp)
    /\ results' = Append(results, [name |-> cur.input[2], outcome |-> "error"])
    /\ pc' = "return"
    /\ UNCHANGED <<flags, dirOrder, fs0, log, run, files, idx, cur, tmp,
                   segments, ntmp, status>>

\* process_file returns to the loop, or to the end of main.
AvReturn ==
    /\ pc = "return"
    /\ pc' = IF isdir(fs0, flags.input) THEN "for" ELSE "complete"
    /\ UNCHANGED <<flags, dirOrder, fs, fs0, log, printed, run, files, idx,
                   cur, tmp, segments, ntmp, results, status>>

\* print("Batch processing complete!") (line 94)
AvComplete ==
    /\ pc = "complete"
    /\ printed' = Append(printed, COMPLETE)
    /\ pc' = "done"
    /\ UNCHANGED <<flags, dirOrder, fs, fs0, log, run, files, idx, cur, tmp,
                   segments, ntmp, results, status>>

AvNext ==
    \/ AvMain
    \/ AvFor
    \/ AvTemp
    \/ AvMaster
    \/ AvMux
    \/ AvRemove
    \/ AvExcept
    \/ AvReturn
    \/ AvComplete

AvSpec == AvInit /\ [][AvNext]_vars

\* Every statement of the program is eventually executed: an external call
\* returns or fails, it does not hang.
AvFairSpec == AvSpec /\ WF_vars(AvNext)

----------------------------------------------------------------------------
\* Properties

\* The three flag combinations validation is documented to reject.
SkipBumperWithBumperOption ==
    flags.skip_bumper /\ (flags.custom_head # NoPath \/ flags.custom_tail # NoPath
                          \/ flags.no_head \/ flags.no_tail)
NoHeadWithCustomHead == flags.no_head /\ flags.custom_head # NoPath
NoTailWithCustomTail == flags.no_tail /\ flags.custom_tail # NoPath
RejectedCombination ==
    SkipBumperWithBumperOption \/ NoHeadWithCustomHead \/ NoTailWithCustomTail

\* Nothing has been done to the file system and no command was spawned.
NoSideEffect == fs = fs0 /\ log = <<>>

\* The candidates of the listing run_batch iterates over.
NumCandidates == Cardinality({i \in 1..Len(files) : IsCandidate(fs0, files[i])})

\* The temporaries of the current process_file call (the input itself stands
\* for the body under add_bumper and is no temporary).
Temporaries ==
    {tmp.mastered, tmp.silence, tmp.concat, tmp.head, tmp.tail}
        \ {NoPath, cur.input}

\* The paths outputs are written to.
OutputPaths == {ClipOut, Join(OutDir, "a.mp3"), Join(OutDir, "b.mp3")}

\* p is as it was when the run started.
Untouched(p) == exists(fs, p) = exists(fs0, p) /\ (exists(fs, p) => fs[p] = fs0[p])

\* C1: in batch mode a failure inside process_file is confined to its entry:
\* once the run has ended after process_file was entered, every candidate of
\* the listing has been processed or skipped.
C1_FailureConfined ==
    (flags.mode = "batch" /\ Terminated /\ cur # NoCur)
        => Len(results) = NumCandidates

\* C2: with a flag combination of one of the first three validation rows,
\* main and process_file fail in validation and before any side effect: no
\* command is spawned or printed, the file system is unchanged, and the
\* program is before validation or has exited with the validation message.
C2_InvalidFlagsFailFast ==
    RejectedCombination =>
        /\ NoSideEffect
        /\ printed = <<>>
        /\ pc \in {"main", "process_file", "exit"}
        /\ pc = "exit" => status \in {"skip_bumper_with_bumper_option",
                                      "no_head_with_custom_head",
                                      "no_tail_with_custom_tail"}

\* process_file, called with no_head and custom_head, has exited in its own
\* validation.
C2_Witness ==
    /\ flags.mode = "direct"
    /\ NoHeadWithCustomHead
    /\ ~flags.skip_bumper
    /\ pc = "exit"
    /\ status = "no_head_with_custom_head"

\* C3: with no_tail, no custom head and no default head, a single-file run or
\* a process_file call is rejected before anything is touched: no command is
\* spawned and the file system is unchanged.
C3_NoTailNoHeadRejectedEarly ==
    (flags.mode # "batch" /\ flags.no_tail /\ flags.custom_head = NoPath
     /\ ~exists(fs0, DEFAULT_HEAD))
        => NoSideEffect /\ pc # "done"

\* The segment list is complete: the manifest was written, or the body alone
\* was renamed.
SegmentsComplete == pc \in {"concat", "cleanup", "return"}

BodyCount == Cardinality({i \in 1..Len(segments) : segments[i] = tmp.mastered})

\* C4 as stated: the complete segment list has 1, 4 or 5 entries and holds the
\* body exactly once.
C4_SegmentCount145 ==
    SegmentsComplete => Len(segments) \in {1, 4, 5} /\ BodyCount = 1

\* C4 as amended: the complete segment list has 1, 2, 4 or 5 entries ([head,
\* body] under no_tail alone has 2) and holds the body exactly once.
C4_SegmentCount ==
    SegmentsComplete => Len(segments) \in {1, 2, 4, 5} /\ BodyCount = 1

\* A manifest of two entries, head and body, is handed to the concat call.
C4_Witness ==
    /\ pc = "concat"
    /\ flags.no_tail /\ ~flags.no_head
    /\ segments = <<tmp.head, tmp.mastered>>

\* C5: under dry_run nothing is done to the file system and no command is
\* spawned.
C5_DryRunNoMutation == flags.dry_run => NoSideEffect

\* mastering on, bumper on, no overrides, a real run
DefaultFlags ==
    /\ ~flags.add_bumper /\ ~flags.skip_bumper /\ ~flags.dry_run
    /\ ~flags.no_head /\ ~flags.no_tail
    /\ flags.custom_head = NoPath /\ flags.custom_tail = NoPath

\* C6: when process_file returns after a run with the default flags, none of
\* its five temporaries exists.
C6_TemporariesRemovedOnSuccess ==
    (DefaultFlags /\ pc = "return")
        => \A p \in Temporaries : ~exists(fs, p)

\* C7: when process_file has failed, none of the temporaries it created
\* exists.
C7_TemporariesRemovedOnFailure ==
    (pc \in {"exit", "crash"} /\ cur # NoCur)
        => \A p \in Temporaries : ~exists(fs, p)

\* C8: under add_bumper with accepted flags no mastering call is issued or
\* printed, and the input file stays at its path.
C8_BumperOnlyKeepsInput ==
    (flags.add_bumper /\ ~RejectedCombination /\ cur # NoCur)
        => /\ exists(fs, cur.input)
           /\ \A i \in 1..Len(log) : log[i].op # "master"
           /\ \A i \in 1..Len(printed) : printed[i].op # "master"

\* C9: in single-file and in batch mode, without force, an output that
\* existed when the run started is left as it was.
C9_ExistingOutputUntouched ==
    (flags.mode \in {"single", "batch"} /\ ~flags.force)
        => \A p \in OutputPaths : exists(fs0, p) => Untouched(p)

\* A later run of the batch does nothing: process_file is not entered, every
\* candidate met so far was skipped, each candidate is met, no output changes.
RunIsIdle ==
    /\ cur = NoCur
    /\ \A i \in 1..Len(results) : results[i].outcome = "skipped"
    /\ pc = "done" => Len(results) = NumCandidates
    /\ \A p \in OutputPaths : Untouched(p)

\* C10 as stated: a second run of the batch without force does nothing.
C10_SecondRunSkipsAll ==
    (flags.mode = "batch" /\ ~flags.force /\ run >= 2) => RunIsIdle

\* C10 as amended: after a real (not dry_run) batch run that returned, a
\* second run without force does nothing.
C10_SecondRealRunSkipsAll ==
    (flags.mode = "batch" /\ ~flags.force /\ ~flags.dry_run /\ run >= 2)
        => RunIsIdle

\* The second real run has ended with two candidates, both skipped.
C10_Witness ==
    /\ flags.mode = "batch" /\ ~flags.force /\ ~flags.dry_run
    /\ run = 2
    /\ pc = "done"
    /\ Len(results) = 2

\* A path with the name mktemp chose left out.
NoTmpName(p) == IF p[1] = "tmp" THEN <<"tmp", p[2], 0>> ELSE p

\* The external calls, renames, removals and directory creations of a
\* sequence of actions, temporary names left out.
Actions(seq) ==
    LET kept == SelectSeq(seq, LAMBDA a : a.op # "open_w")
    IN  [i \in 1..Len(kept) |->
            Act(kept[i].op, NoTmpName(kept[i].src), NoTmpName(kept[i].dst))]

\* C11: when the real run that follows a dry run of the same command line,
\* from the same file system, has returned, the actions it performed are the
\* actions the dry run printed, in the same order.
C11_DryRunSameActions ==
    (~flags.dry_run /\ printed # <<>> /\ pc = "done")
        => Actions(log) = Actions(printed)

\* Number of entries of a sequence of actions with the given operation.
Count(seq, op) == Cardinality({i \in 1..Len(seq) : seq[i].op = op})

\* process_file is past the silence step (lines 80-83) of some file.
PastSilenceStep ==
    /\ ~flags.skip_bumper
    /\ pc \in {"canon_silence", "head", "tail", "concat", "cleanup", "return"}

\* If the silence asset existed when the run started no generation call is
\* issued; if it did not, then past the silence step exactly one was issued
\* and the asset exists.
SilenceIdempotent ==
    /\ exists(fs0, SILENCE_PATH) => Count(log, "generate_silence") = 0
    /\ (~exists(fs0, SILENCE_PATH) /\ PastSilenceStep)
           => Count(log, "generate_silence") = 1 /\ exists(fs, SILENCE_PATH)

C13_BodyAloneNoConcat ==
    (~RejectedCombination
     /\ (flags.skip_bumper \/ (flags.no_head /\ flags.no_tail)))
        => Count(log, "concat") = 0 /\ Count(printed, "concat") = 0

\* The manifest the flags call for.
ExpectedManifest ==
    (IF flags.no_head THEN <<>> ELSE <<tmp.head>>)
        \o <<tmp.mastered>>
        \o (IF flags.no_tail THEN <<>> ELSE <<tmp.silence, tmp.tail, tmp.silence>>)

\* C14: when bumpers are not skipped the complete manifest is the head iff
\* it is not omitted, the body, then silence, tail, silence iff the tail is
\* not omitted; in a real run these entries are the canonical copies of the
\* head, the silence and the tail.
C14_ManifestOrder ==
    (SegmentsComplete /\ ~flags.skip_bumper)
        => /\ segments = ExpectedManifest
           /\ (pc = "concat" /\ ~flags.dry_run)
                => /\ ~flags.no_head => fs[tmp.head] = <<"canon", "head">>
                   /\ ~flags.no_tail => /\ fs[tmp.tail] = <<"canon", "tail">>
                                        /\ fs[tmp.silence] = <<"canon", "silence">>
                   /\ ~flags.add_bumper
                        => fs[tmp.mastered] = <<"mastered", cur.input[2]>>

\* With the default flags the manifest handed to the concat call is
\* [head, body, silence, tail, silence].
C14_Witness ==
    /\ DefaultFlags
    /\ pc = "concat"
    /\ segments = <<tmp.head, tmp.mastered, tmp.silence, tmp.tail, tmp.silence>>
    /\ Cardinality({tmp.head, tmp.mastered, tmp.silence, tmp.tail}) = 4

\* custom-head=X and no-tail, and no default tail asset
CustomHeadNoTail ==
    /\ flags.custom_head # NoPath /\ flags.no_tail
    /\ ~flags.no_head /\ flags.custom_tail = NoPath /\ ~flags.skip_bumper
    /\ ~exists(fs0, DEFAULT_TAIL)

\* C15 as stated: with custom-head=X and no-tail and no default tail, a
\* single-file run or a process_file call does not complete and no output is
\* produced.
C15_CustomHeadNoTailRejected ==
    (CustomHeadNoTail /\ flags.mode # "batch")
        => pc \notin {"return", "done"} /\ \A p \in OutputPaths : Untouched(p)

\* C15 as amended: with custom-head=X and no-tail and no default tail the run
\* is not rejected: it never exits in validation or for a missing tail, the
\* default tail is never read, and a real run whose calls succeed produces
\* the output from the manifest [head X, body].
C15_CustomHeadNoTailAccepted ==
    CustomHeadNoTail
        => /\ status \notin {"skip_bumper_with_bumper_option",
                             "no_head_with_custom_head",
                             "no_tail_with_custom_tail", "missing_tail_bumper"}
           /\ \A i \in 1..Len(log) : log[i].src # DEFAULT_TAIL
           /\ (pc = "return" /\ ~flags.dry_run)
                => /\ exists(fs, cur.output)
                   /\ fs[cur.output] = <<"concat", cur.input[2]>>
                   /\ segments = <<tmp.head, tmp.mastered>>

\* A real run with custom-head=X and no-tail and no default tail has produced
\* its output.
C15_Witness ==
    /\ CustomHeadNoTail
    /\ ~flags.dry_run
    /\ pc = "return"
    /\ exists(fs, cur.output)
    /\ \E i \in 1..Len(log) : log[i].src = UserHead

\* p is the source of a call issued or printed in the current run.
Uses(p) ==
    \/ \E i \in 1..Len(log) : log[i].src = p
    \/ \E i \in 1..Len(printed) : printed[i].src = p

\* C17: with accepted flags, a custom head (tail) keeps the default head
\* (tail) from being read and from failing the run as missing; no_head
\* (no_tail) keeps both the default and the custom path of the role from being
\* read, canonicalized or put in the manifest.
C17_TieBreak ==
    ~RejectedCombination
        => /\ flags.custom_head # NoPath
                => ~Uses(DEFAULT_HEAD) /\ status # "missing_head_bumper"
           /\ flags.custom_tail # NoPath
                => ~Uses(DEFAULT_TAIL) /\ status # "missing_tail_bumper"
           /\ flags.no_head
                => /\ ~Uses(DEFAULT_HEAD) /\ ~Uses(UserHead)
                   /\ tmp.head = NoPath
                   /\ status # "missing_head_bumper"
           /\ flags.no_tail
                => /\ ~Uses(DEFAULT_TAIL) /\ ~Uses(UserTail)
                   /\ tmp.tail = NoPath
                   /\ status # "missing_tail_bumper"

\* A real run with a custom head and no default head has returned, its manifest
\* starting with the canonical copy of the custom head.
C17_Witness ==
    /\ flags.custom_head # NoPath
    /\ ~exists(fs0, DEFAULT_HEAD)
    /\ ~flags.dry_run
    /\ pc = "return"
    /\ Uses(UserHead)
    /\ segments[1] = tmp.head

\* C19: when process_file returns from a real run in mastering mode, the
\* mastered intermediate is gone from its temporary path and the output
\* exists: it is the renamed intermediate under skip_bumper, the result of the
\* concatenation otherwise.
C19_MasteredIntermediateGone ==
    (~flags.add_bumper /\ ~flags.dry_run /\ pc = "return")
        => /\ tmp.mastered # cur.input
           /\ ~exists(fs, tmp.mastered)
           /\ exists(fs, cur.output)
           /\ fs[cur.output] = IF flags.skip_bumper
                               THEN <<"mastered", cur.input[2]>>
                               ELSE <<"concat", cur.input[2]>>

\* The mastered intermediate has been renamed to the output.
C19_Witness ==
    /\ ~flags.add_bumper /\ ~flags.dry_run /\ flags.skip_bumper
    /\ pc = "return"
    /\ log[Len(log)] = Act("rename", tmp.mastered, cur.output)

\* Number of concat calls and renames of the current run that target p.
Writes(p) ==
    Cardinality({i \in 1..Len(log) :
                    log[i].dst = p /\ log[i].op \in {"concat", "rename"}})

\* The output path run_batch computes for a directory entry (line 139).
OutputOf(filename) == Join(OutDir, OutputName(splitext(filename)[1]))

\* C20: in a real batch run without force every output path is the target
\* of at most one input, an output that existed when the run started is the
\* target of none, and a candidate whose output an earlier candidate of the
\* run produced is skipped.
C20_OutputWrittenOnce ==
    (flags.mode = "batch" /\ ~flags.force /\ ~flags.dry_run)
        => /\ \A p \in OutputPaths :
                /\ Writes(p) <= 1
                /\ exists(fs0, p) => Writes(p) = 0
           /\ \A i, j \in 1..Len(results) :
                (i < j /\ OutputOf(results[i].name) = OutputOf(results[j].name)
                 /\ results[i].outcome = "produced")
                    => results[j].outcome = "skipped"

\* Two candidates share a stem: the first was processed, the second skipped.
C20_Witness ==
    /\ flags.mode = "batch" /\ ~flags.force /\ ~flags.dry_run
    /\ ~exists(fs0, Join(OutDir, "a.mp3"))
    /\ Len(results) = 2
    /\ results[1].outcome = "produced"
    /\ results[2].outcome = "skipped"
    /\ OutputOf(results[1].name) = OutputOf(results[2].name)
    /\ Writes(Join(OutDir, "a.mp3")) = 1

\* The process_file calls main has made, in order.
Invoked ==
    LET calls == SelectSeq(log, LAMBDA a : a.op = "process_file")
    IN  [i \in 1..Len(calls) |-> calls[i].src]

\* main has returned from directory mode: process_file was invoked once for
\* each discovered file, in order, each call returned, and the last thing
\* printed is the summary.
AvDirectoryComplete ==
    /\ pc = "done"
    /\ Invoked = files
    /\ Len(results) = Len(files)
    /\ printed # <<>> /\ printed[Len(printed)] = COMPLETE

\* C16: in directory mode, whatever the files and whichever calls fail,
\* process_file has at every moment been invoked once for each file the loop
\* has reached, and the run eventually ends with every discovered file
\* invoked once and the summary printed last.
C16_EveryFileProcessedThenSummary ==
    /\ [](isdir(fs0, flags.input) => Invoked = SubSeq(files, 1, idx))
    /\ (isdir(fs0, flags.input) ~> AvDirectoryComplete)

\* A directory run has ended after the first of two files failed and the
\* second was muxed.
C16_Witness ==
    /\ isdir(fs0, flags.input)
    /\ AvDirectoryComplete
    /\ Len(files) = 2
    /\ results[1].outcome = "error"
    /\ results[2].outcome = "muxed"

\* C18: when process_file of audiovault_master.py returns, after both calls
\* succeeded or after either failed, its temporary audio file does not exist.
C18_TempRemovedOnReturn ==
    pc = "return" => tmp # NoPath /\ ~exists(fs, tmp)

\* process_file has returned after its second (mux) call failed.
C18_Witness ==
    /\ pc = "return"
    /\ results[Len(results)].outcome = "error"
    /\ log[Len(log)].op = "mux"
    /\ ~exists(fs, tmp)

====
